---- MODULE Spec2Model ----
(***************************************************************************)
(* Worker pool, request pipeline and sliding-window rate limiter of        *)
(* ToolbazProvider (src/app/providers/toolbaz_provider.py) with the HTTP   *)
(* wrapper of src/main.py.                                                 *)
(*                                                                         *)
(* The program runs on one asyncio event loop: code between two awaits is  *)
(* atomic, so each action below is one such segment of a coroutine.        *)
(* Time is in whole seconds.                                               *)
(***************************************************************************)
EXTENDS Integers, Sequences, FiniteSets

(***************************************************************************)
(* Bounds of the model.  BROWSER_POOL_SIZE and CONTEXT_MAX_USES are        *)
(* settings (src/app/core/config.py:28 and :31, defaults 1 and 50) read    *)
(* from the environment; the model runs a small instance of each.          *)
(***************************************************************************)
BROWSER_POOL_SIZE == 2
CONTEXT_MAX_USES == 1
NumRequests == 2
MaxAdmissions == 6
MaxTextLen == 21
MaxLimiterAdmissions == 6
MaxLimiterTicks == 3
MaxWorkerUses == 2
MaxRawLen == 4
NumFifoCallers == 3
MaxFifoAdmissions == 7
MaxDeliveryLen == 45

(***************************************************************************)
(* Program constants.                                                      *)
(***************************************************************************)
MAX_REQUESTS_PER_MINUTE == 4
WINDOW == 60
MARGIN == 1
chunk_size == 20
max_retries == 3
HandlerStatus == 500
QuotaStatus == 429
OkStatus == 200

Workers == 1..BROWSER_POOL_SIZE
Requests == 1..NumRequests
NoWorker == 0
NoRequest == 0
NoTime == -1
TickSteps == {1, WINDOW - 1}
TextLens == {0, MaxTextLen}
FifoCallers == 1..NumFifoCallers
Driver == CHOOSE r \in Requests : TRUE
Subject == CHOOSE w \in Workers : TRUE

VARIABLES
    \* BrowserWorker objects
    created,            \* workers constructed so far by initialize()
    context,            \* context[w]: self.context of worker w is set
    page,               \* page[w]: self.page of worker w is set
    live,               \* live[w]: browsing contexts opened for w and not closed
    uses_count,         \* uses_count[w]
    \* ToolbazProvider
    pool,               \* self.pool, an asyncio.Queue of workers
    spawning,           \* spawning[w]: _init_and_push_worker tasks holding w
    recycling,          \* recycling[w]: _recycle_worker tasks holding w
    request_timestamps, \* self.request_timestamps
    lockHolder,         \* the request inside `async with self.rate_limit_lock`
    lockWaiters,        \* requests queued on rate_limit_lock, oldest first
    \* req[r]: one chat_completion call (or one direct call of the limiter)
    req,
    \* the clock
    now,
    \* history, read by the properties only
    admitLog,           \* every admission time of the limiter, in order
    ticks               \* clock steps taken

vars == <<created, context, page, live, uses_count, pool, spawning, recycling,
          request_timestamps, lockHolder, lockWaiters, req, now, admitLog,
          ticks>>

(***************************************************************************)
(* The frame of a call.                                                    *)
(*   pc             where the coroutine is suspended                       *)
(*   worker, stream locals of chat_completion                              *)
(*   current_time, oldest_request, wait_time                               *)
(*                  locals of _wait_for_rate_limit                         *)
(*   chat_text      chat_resp.text                                         *)
(*   clean_text     the cleaned text, a sequence of characters             *)
(*   textLen        len(clean_text)                                        *)
(*   sent           characters of clean_text the generator has yielded     *)
(*   events         the items the generator has yielded, in order          *)
(*   status, message  what the caller of /v1/chat/completions sees         *)
(* and the history of the call, read by the properties only:               *)
(*   cause          what ended the call                                    *)
(*   didPut, didRecycle  the call put its worker back into the pool,       *)
(*                  handed it to _recycle_worker                           *)
(*   credFails      get_token_data() calls that returned an error marker   *)
(*   credCalls      get_token_data() calls made by the call                *)
(*   reinits        worker.init() calls made at line 240                   *)
(*   evalUses       uses_count of the session the last page.evaluate()     *)
(*                  of the call ran on                                     *)
(*   submitAt       when the call reached _wait_for_rate_limit             *)
(*   admitted       the limiter has appended the call's timestamp          *)
(*   admitAt        the timestamp it appended                              *)
(*   backendCalls   backend calls made                                     *)
(* and, when a method of a worker is called directly, what the caller saw: *)
(*   op, setup, navs, result, path, inited, attempts, usesBefore           *)
(* and, when _clean_response_text is called directly:                      *)
(*   again          the result of cleaning clean_text once more            *)
(***************************************************************************)
NewFrame ==
    [pc |-> "idle", worker |-> NoWorker, stream |-> FALSE,
     current_time |-> NoTime, oldest_request |-> NoTime, wait_time |-> 0,
     textLen |-> 0, sent |-> 0, status |-> 0, message |-> "none",
     cause |-> "none", didPut |-> FALSE, didRecycle |-> FALSE,
     credFails |-> 0, submitAt |-> NoTime, admitted |-> FALSE,
     admitAt |-> NoTime, backendCalls |-> {},
     chat_text |-> <<>>, clean_text |-> <<>>, events |-> <<>>,
     credCalls |-> 0, reinits |-> 0, evalUses |-> NoTime,
     op |-> "none", setup |-> "none", navs |-> <<>>, result |-> "none",
     path |-> "none", inited |-> FALSE, attempts |-> 0, usesBefore |-> 0,
     again |-> <<>>]

\* The call is over: its frame is gone; the response and the fate of the
\* worker stay on record until the slot's next call.
Ended(st, msg, c, put, rec) ==
    [NewFrame EXCEPT !.pc = "done", !.status = st, !.message = msg,
                     !.cause = c, !.didPut = put, !.didRecycle = rec]

\* ToolbazProvider.__init__ and the BrowserWorker objects as constructed.
ProviderInit ==
    /\ created = 0
    /\ context = [w \in Workers |-> FALSE]
    /\ page = [w \in Workers |-> FALSE]
    /\ live = [w \in Workers |-> 0]
    /\ uses_count = [w \in Workers |-> 0]
    /\ pool = <<>>
    /\ spawning = [w \in Workers |-> 0]
    /\ recycling = [w \in Workers |-> 0]
    /\ request_timestamps = <<>>
    /\ lockHolder = NoRequest
    /\ lockWaiters = <<>>
    /\ now = 0
    /\ admitLog = <<>>
    /\ ticks = 0

Init ==
    /\ ProviderInit
    /\ req = [r \in Requests |-> NewFrame]

(***************************************************************************)
(* A BrowserWorker object as a record of its fields, with the number of    *)
(* browsing contexts it has opened in the browser and not closed.          *)
(***************************************************************************)
WorkerState(w) ==
    [context |-> context[w], page |-> page[w], live |-> live[w],
     uses_count |-> uses_count[w]]

SetWorker(w, ws) ==
    /\ context' = [context EXCEPT ![w] = ws.context]
    /\ page' = [page EXCEPT ![w] = ws.page]
    /\ live' = [live EXCEPT ![w] = ws.live]
    /\ uses_count' = [uses_count EXCEPT ![w] = ws.uses_count]

(***************************************************************************)
(* BrowserWorker.close(): closes the context the worker refers to, if any  *)
(* (an exception of context.close(), raised when the context is already    *)
(* gone, is swallowed), and clears context and page.  It never raises.     *)
(***************************************************************************)
Close(ws) ==
    [ws EXCEPT !.context = FALSE, !.page = FALSE,
               !.live = IF ws.context THEN @ - 1 ELSE @]

(***************************************************************************)
(* What the browser does during one init(): new_context() or new_page()    *)
(* (or add_init_script) may raise, and each page.goto() of the warm-up     *)
(* loop succeeds, fails with a timeout-class error ("Timeout" or           *)
(* "ERR_CONNECTION_CLOSED" in the message) or fails with another error.    *)
(***************************************************************************)
NavOutcomes == {"ok", "timeout", "other"}

SetupOutcomes == {"ok", "new_context_raises", "new_page_raises"}

NavScripts == [1..max_retries -> NavOutcomes]

(***************************************************************************)
(* for attempt in range(max_retries): goto; break on success; on a         *)
(* timeout-class error raise if attempt == max_retries - 1, else sleep 5   *)
(* and go round again; raise any other error.  attempts counts the goto    *)
(* calls made.                                                             *)
(***************************************************************************)
\* a loop whose give-up test is off by one: the last failure is not raised
RECURSIVE Navigate_offByOne(_, _)
Navigate_offByOne(navs, attempt) ==
    IF attempt >= max_retries
    THEN [ok |-> TRUE, attempts |-> attempt]
    ELSE CASE navs[attempt + 1] = "ok" ->
                  [ok |-> TRUE, attempts |-> attempt + 1]
           [] navs[attempt + 1] = "timeout" ->
                  IF attempt = max_retries
                  THEN [ok |-> FALSE, attempts |-> attempt + 1]
                  ELSE Navigate_offByOne(navs, attempt + 1)
           [] OTHER ->
                  [ok |-> FALSE, attempts |-> attempt + 1]

RECURSIVE Navigate(_, _)
Navigate(navs, attempt) ==
    IF attempt >= max_retries
    THEN [ok |-> TRUE, attempts |-> attempt]
    ELSE CASE navs[attempt + 1] = "ok" ->
                  [ok |-> TRUE, attempts |-> attempt + 1]
           [] navs[attempt + 1] = "timeout" ->
                  IF attempt = max_retries - 1
                  THEN [ok |-> FALSE, attempts |-> attempt + 1]
                  ELSE Navigate(navs, attempt + 1)
           [] OTHER ->
                  [ok |-> FALSE, attempts |-> attempt + 1]

(***************************************************************************)
(* BrowserWorker.init() on a worker in state ws, when the set-up calls end *)
(* as setup and the warm-up loop as nav: [ok, attempts, ws] with the value *)
(* returned, the goto calls made and the worker afterwards.                *)
(*   if self.context: await self.close()                                   *)
(*   self.context = new_context(); self.page = new_page(); warm-up loop;   *)
(*   self.uses_count = 0; return True                                      *)
(*   except Exception: await self.close(); return False                    *)
(***************************************************************************)
\* an init() that opens the new context without closing the old one
InitTeardown_none(ws) == ws

InitTeardown(ws) == IF ws.context THEN Close(ws) ELSE ws

InitRun(ws, setup, nav) ==
    LET torn == InitTeardown(ws)
        opened == [torn EXCEPT !.context = TRUE, !.live = @ + 1]
        paged == [opened EXCEPT !.page = TRUE]
    IN  CASE setup = "new_context_raises" ->
                 [ok |-> FALSE, attempts |-> 0, ws |-> Close(torn)]
          [] setup = "new_page_raises" ->
                 [ok |-> FALSE, attempts |-> 0, ws |-> Close(opened)]
          [] OTHER ->
                 IF nav.ok
                 THEN [ok |-> TRUE, attempts |-> nav.attempts,
                       ws |-> [paged EXCEPT !.uses_count = 0]]
                 ELSE [ok |-> FALSE, attempts |-> nav.attempts,
                       ws |-> Close(paged)]

\* The ways the warm-up loop can end.
NavResults == { Navigate(navs, 0) : navs \in NavScripts }

\* What init() can return on a worker in state ws, and the worker afterwards.
InitResults(ws) ==
    { LET run == InitRun(ws, setup, nav) IN [ok |-> run.ok, ws |-> run.ws] :
          setup \in SetupOutcomes, nav \in NavResults }

(***************************************************************************)
(* await worker.init() by the owner of worker w, returning ok.  The worker *)
(* is owned by the caller for the whole call, so the call is one step.     *)
(***************************************************************************)
WorkerInit(w, ok) ==
    \E run \in InitResults(WorkerState(w)) :
        run.ok = ok /\ SetWorker(w, run.ws)

(***************************************************************************)
(* initialize(): the startup fan-out creates the workers one by one and    *)
(* starts an _init_and_push_worker task for each.                          *)
(***************************************************************************)
Initialize ==
    /\ created < BROWSER_POOL_SIZE
    /\ created' = created + 1
    /\ spawning' = [spawning EXCEPT ![created + 1] = @ + 1]
    /\ UNCHANGED <<context, page, live, uses_count, pool, recycling, request_timestamps,
                   lockHolder, lockWaiters, req, now, admitLog, ticks>>

(***************************************************************************)
(* _init_and_push_worker(worker): init, then put into the pool; on failure *)
(* sleep and call itself again with the same worker.                       *)
(***************************************************************************)
InitAndPushWorker(w) ==
    /\ spawning[w] > 0
    /\ \E ok \in BOOLEAN :
        /\ WorkerInit(w, ok)
        /\ IF ok
           THEN /\ pool' = Append(pool, w)
                /\ spawning' = [spawning EXCEPT ![w] = @ - 1]
           ELSE UNCHANGED <<pool, spawning>>
    /\ UNCHANGED <<created, recycling, request_timestamps, lockHolder,
                   lockWaiters, req, now, admitLog, ticks>>

(***************************************************************************)
(* _recycle_worker(worker): sleep, init, then put into the pool; on        *)
(* failure sleep and call itself again with the same worker.               *)
(***************************************************************************)
\* a recycle task that puts the worker back whatever init() returned
RecycleWorker_putsOnFailure(w) ==
    /\ recycling[w] > 0
    /\ \E ok \in BOOLEAN : WorkerInit(w, ok)
    /\ pool' = Append(pool, w)
    /\ recycling' = [recycling EXCEPT ![w] = @ - 1]
    /\ UNCHANGED <<created, spawning, request_timestamps, lockHolder,
                   lockWaiters, req, now, admitLog, ticks>>

RecycleWorker(w) ==
    /\ recycling[w] > 0
    /\ \E ok \in BOOLEAN :
        /\ WorkerInit(w, ok)
        /\ IF ok
           THEN /\ pool' = Append(pool, w)
                /\ recycling' = [recycling EXCEPT ![w] = @ - 1]
           ELSE UNCHANGED <<pool, recycling>>
    /\ UNCHANGED <<created, spawning, request_timestamps, lockHolder,
                   lockWaiters, req, now, admitLog, ticks>>

(***************************************************************************)
(* What the caller of POST /v1/chat/completions sees.  An exception        *)
(* leaving chat_completion is an HTTPException(500) built by its handler;  *)
(* main.chat_completions catches it (it is an Exception) and answers       *)
(* JSONResponse({"error": str(e)}, status_code=500).  A response returned  *)
(* by chat_completion is forwarded as it is.  ErrorText is the fixed part  *)
(* of the message (the source's Chinese prefixes are given in English).    *)
(***************************************************************************)
ErrorText(c) ==
    CASE c = "cred_twice" -> "Token generation failed"
      [] c = "token_non200" -> "Token API bad status"
      [] c = "token_rejected" -> "Token API rejected"
      [] c = "gen_non200" -> "Writing API error"
      [] c = "gen_quota" -> "Rate limit exceeded (5 req/min). Please wait."
      [] c \in {"cred_raise", "token_raise", "gen_raise"} -> "str(e)"
      [] OTHER -> "none"

(***************************************************************************)
(* except Exception as e: (lines 329-332) -- log, start a _recycle_worker  *)
(* task for the worker, raise HTTPException(500).                          *)
(***************************************************************************)
\* a handler that puts the worker back instead of recycling it
ExceptHandler_putsBack(r, c) ==
    /\ pool' = Append(pool, req[r].worker)
    /\ req' = [req EXCEPT ![r] = Ended(HandlerStatus, ErrorText(c), c, TRUE, FALSE)]
    /\ UNCHANGED recycling

ExceptHandler(r, c) ==
    /\ recycling' = [recycling EXCEPT ![req[r].worker] = @ + 1]
    /\ req' = [req EXCEPT ![r] = Ended(HandlerStatus, ErrorText(c), c, FALSE, TRUE)]
    /\ UNCHANGED pool

\* The calls under way that the limiter has not admitted yet.
Unadmitted ==
    {r \in DOMAIN req : req[r].pc \notin {"idle", "done"} /\ ~req[r].admitted}

(***************************************************************************)
(* chat_completion(request_data) is called: the synchronous prologue runs  *)
(* up to `await self.pool.get()`.  A finished slot takes the next call.    *)
(***************************************************************************)
ChatCompletion(r) ==
    /\ req[r].pc \in {"idle", "done"}
    /\ Len(admitLog) + Cardinality(Unadmitted) < MaxAdmissions
    /\ \E s \in BOOLEAN :
        req' = [req EXCEPT ![r] = [NewFrame EXCEPT !.pc = "get", !.stream = s]]
    /\ UNCHANGED <<created, context, page, live, uses_count, pool, spawning, recycling,
                   request_timestamps, lockHolder, lockWaiters, now,
                   admitLog, ticks>>

(***************************************************************************)
(* worker = await self.pool.get(): takes the oldest worker of the queue,   *)
(* and waits while the queue is empty.                                     *)
(***************************************************************************)
\* a get() that leaves the worker in the queue
QueueAfterGet_peek(q) == q

QueueAfterGet(q) == Tail(q)

PoolGet(r) ==
    /\ req[r].pc = "get"
    /\ pool # <<>>
    /\ req' = [req EXCEPT ![r].worker = Head(pool), ![r].pc = "stale"]
    /\ pool' = QueueAfterGet(pool)
    /\ UNCHANGED <<created, context, page, live, uses_count, spawning, recycling,
                   request_timestamps, lockHolder, lockWaiters, now,
                   admitLog, ticks>>

(***************************************************************************)
(* if worker.uses_count > settings.CONTEXT_MAX_USES: await worker.init()   *)
(* (the result of init() is not looked at).                                *)
(***************************************************************************)
\* a check that lets one more use through
IsStale_late(w) == uses_count[w] > CONTEXT_MAX_USES + 1

IsStale(w) == uses_count[w] > CONTEXT_MAX_USES

StalenessCheck(r) ==
    /\ req[r].pc = "stale"
    /\ IF IsStale(req[r].worker)
       THEN \E ok \in BOOLEAN : WorkerInit(req[r].worker, ok)
       ELSE UNCHANGED <<context, page, live, uses_count>>
    /\ req' = [req EXCEPT ![r].pc = "cred1"]
    /\ UNCHANGED <<created, pool, spawning, recycling, request_timestamps,
                   lockHolder, lockWaiters, now, admitLog, ticks>>

(***************************************************************************)
(* BrowserWorker.get_token_data(): the outcomes [result, path, inited, ws,  *)
(* evalUses] the call can have on worker w: what it returns ("raise" for   *)
(* an exception), the way it took, whether it ran init(), the worker       *)
(* afterwards.                                                             *)
(*   - no page, or the page is found closed: init() first; a failed init() *)
(*     returns {"error": ...} at once;                                     *)
(*   - the page function is not ready and the reload fails: {"error": ...} *)
(*     is returned before uses_count is touched;                           *)
(*   - page.evaluate() raises: the exception leaves the call;              *)
(*   - page.evaluate() returns an error marker or {sessionId, token}:      *)
(*     uses_count += 1 and the result is returned.                         *)
(***************************************************************************)
\* a call that forgets the increment
AfterEvaluate_none(u) == u

AfterEvaluate(u) == u + 1

\* The rest of the call once the worker has a page, the worker being ws.
\* evalUses is the uses_count of the session page.evaluate() ran on.
TokenDataOn(ws, inited) ==
    LET used == [ws EXCEPT !.uses_count = AfterEvaluate(@)]
    IN  { [result |-> "ok", path |-> "ok", inited |-> inited,
           ws |-> used, evalUses |-> ws.uses_count],
          [result |-> "error", path |-> "error_marker", inited |-> inited,
           ws |-> used, evalUses |-> ws.uses_count],
          [result |-> "error", path |-> "reload_failed", inited |-> inited,
           ws |-> ws, evalUses |-> NoTime],
          [result |-> "raise", path |-> "evaluate_raised", inited |-> inited,
           ws |-> ws, evalUses |-> ws.uses_count] }

GetTokenData(w) ==
    LET ws == WorkerState(w)
        AfterInit(run) ==
            IF run.ok
            THEN TokenDataOn(run.ws, TRUE)
            ELSE { [result |-> "error", path |-> "reinit_failed",
                    inited |-> TRUE, ws |-> run.ws, evalUses |-> NoTime] }
        reinit == UNION { AfterInit(run) : run \in InitResults(ws) }
    IN  IF ws.page THEN TokenDataOn(ws, FALSE) \cup reinit ELSE reinit

(***************************************************************************)
(* security_data = await worker.get_token_data() and what follows it up to *)
(* the next await: on an error marker the pipeline goes on to              *)
(* worker.init(); otherwise it goes on to _wait_for_rate_limit().          *)
(***************************************************************************)
\* the pipeline without its rate-limit gate
AfterCredentials_skipLimiter == "token"

AfterCredentials == "ratelimit"

Credentials(r) ==
    /\ req[r].pc = "cred1"
    /\ \E o \in GetTokenData(req[r].worker) :
        /\ SetWorker(req[r].worker, o.ws)
        /\ CASE o.result = "ok" ->
                   /\ req' = [req EXCEPT ![r].pc = AfterCredentials,
                                         ![r].credCalls = @ + 1,
                                         ![r].evalUses = o.evalUses]
                   /\ UNCHANGED <<pool, recycling>>
             [] o.result = "error" ->
                   /\ req' = [req EXCEPT ![r].pc = "reinit",
                                         ![r].credFails = @ + 1,
                                         ![r].credCalls = @ + 1,
                                         ![r].evalUses = o.evalUses]
                   /\ UNCHANGED <<pool, recycling>>
             [] o.result = "raise" ->
                   ExceptHandler(r, "cred_raise")
    /\ UNCHANGED <<created, spawning, request_timestamps, lockHolder,
                   lockWaiters, now, admitLog, ticks>>

(***************************************************************************)
(* await worker.init() after the first failed get_token_data() (line 240). *)
(***************************************************************************)
\* a pipeline that retries without re-initialising the worker
Reinit_skipped(r) ==
    /\ req[r].pc = "reinit"
    /\ req' = [req EXCEPT ![r].pc = "cred2"]
    /\ UNCHANGED <<created, context, page, live, uses_count, pool, spawning,
                   recycling, request_timestamps, lockHolder, lockWaiters,
                   now, admitLog, ticks>>

Reinit(r) ==
    /\ req[r].pc = "reinit"
    /\ \E ok \in BOOLEAN : WorkerInit(req[r].worker, ok)
    /\ req' = [req EXCEPT ![r].pc = "cred2", ![r].reinits = @ + 1]
    /\ UNCHANGED <<created, pool, spawning, recycling, request_timestamps,
                   lockHolder, lockWaiters, now, admitLog, ticks>>

(***************************************************************************)
(* The second get_token_data() (line 241): a second error marker raises    *)
(* Exception("Token generation failed: ...").                              *)
(***************************************************************************)
CredentialsRetry(r) ==
    /\ req[r].pc = "cred2"
    /\ \E o \in GetTokenData(req[r].worker) :
        /\ SetWorker(req[r].worker, o.ws)
        /\ CASE o.result = "ok" ->
                   /\ req' = [req EXCEPT ![r].pc = AfterCredentials,
                                         ![r].credCalls = @ + 1,
                                         ![r].evalUses = o.evalUses]
                   /\ UNCHANGED <<pool, recycling>>
             [] o.result = "error" ->
                   ExceptHandler(r, "cred_twice")
             [] o.result = "raise" ->
                   ExceptHandler(r, "cred_raise")
    /\ UNCHANGED <<created, spawning, request_timestamps, lockHolder,
                   lockWaiters, now, admitLog, ticks>>

(***************************************************************************)
(* _wait_for_rate_limit().                                                 *)
(*                                                                         *)
(* Prune: [t for t in self.request_timestamps if current_time - t < 60]    *)
(* WaitTime: 60 - (current_time - oldest_request) + 1                      *)
(***************************************************************************)
\* a limiter that never drops an old timestamp
Prune_keepsAll(ts, t) == ts

Prune(ts, t) == SelectSeq(ts, LAMBDA x : t - x < WINDOW)

\* the wait without its one-second margin
WaitTime_noMargin(t, oldest) == WINDOW - (t - oldest)

WaitTime(t, oldest) == WINDOW - (t - oldest) + MARGIN

\* `>` where the code has `>=`
WindowFull_offByOne(ts) == Len(ts) > MAX_REQUESTS_PER_MINUTE

WindowFull(ts) == Len(ts) >= MAX_REQUESTS_PER_MINUTE

\* self.request_timestamps.append(time.time()), the lock is released, the
\* call returns: request r is admitted at time t.
Admit(r, ts, t, frame) ==
    /\ request_timestamps' = Append(ts, t)
    /\ lockHolder' = NoRequest
    /\ admitLog' = Append(admitLog, t)
    /\ req' = [req EXCEPT ![r] = [frame EXCEPT !.pc = "token", !.admitted = TRUE,
                                              !.admitAt = t]]

\* The body of `async with self.rate_limit_lock:` up to its first await,
\* run by request r whose frame is `frame`.
CriticalSection(r, frame) ==
    LET pruned == Prune(request_timestamps, now)
        full == WindowFull(pruned)
        oldest == IF full THEN pruned[1] ELSE NoTime
        wait == IF full THEN WaitTime(now, oldest) ELSE 0
        entered == [frame EXCEPT !.current_time = now,
                                 !.oldest_request = oldest,
                                 !.wait_time = wait]
    IN  IF full /\ wait > 0
        THEN /\ request_timestamps' = pruned
             /\ lockHolder' = r
             /\ req' = [req EXCEPT ![r] = [entered EXCEPT !.pc = "rl_sleep"]]
             /\ UNCHANGED admitLog
        ELSE Admit(r, pruned, now, entered)

\* The call arrives at `async with self.rate_limit_lock`: it takes a free
\* lock nobody waits for, and queues behind the waiters otherwise.
WaitForRateLimit(r) ==
    /\ req[r].pc = "ratelimit"
    /\ IF lockHolder = NoRequest /\ lockWaiters = <<>>
       THEN /\ CriticalSection(r, [req[r] EXCEPT !.submitAt = now])
            /\ UNCHANGED lockWaiters
       ELSE /\ lockWaiters' = Append(lockWaiters, r)
            /\ req' = [req EXCEPT ![r].pc = "rl_wait", ![r].submitAt = now]
            /\ UNCHANGED <<request_timestamps, lockHolder, admitLog>>
    /\ UNCHANGED <<created, context, page, live, uses_count, pool, spawning, recycling,
                   now, ticks>>

\* a lock that wakes its newest waiter
LockGranted_newest(r) ==
    /\ req[r].pc = "rl_wait"
    /\ lockHolder = NoRequest
    /\ lockWaiters # <<>>
    /\ lockWaiters[Len(lockWaiters)] = r
    /\ lockWaiters' = SubSeq(lockWaiters, 1, Len(lockWaiters) - 1)
    /\ CriticalSection(r, req[r])
    /\ UNCHANGED <<created, context, page, live, uses_count, pool, spawning,
                   recycling, now, ticks>>

\* A released lock goes to its oldest waiter.
LockGranted(r) ==
    /\ req[r].pc = "rl_wait"
    /\ lockHolder = NoRequest
    /\ lockWaiters # <<>>
    /\ Head(lockWaiters) = r
    /\ lockWaiters' = Tail(lockWaiters)
    /\ CriticalSection(r, req[r])
    /\ UNCHANGED <<created, context, page, live, uses_count, pool, spawning, recycling,
                   now, ticks>>

\* await asyncio.sleep(wait_time) ends, at its deadline or, when the clock
\* has already passed the deadline, now; then time.time() is appended.
SleepDeadline(r) == req[r].current_time + req[r].wait_time

WakeTime(r) == IF now >= SleepDeadline(r) THEN now ELSE SleepDeadline(r)

SleepDone(r) ==
    /\ req[r].pc = "rl_sleep"
    /\ now' = WakeTime(r)
    /\ Admit(r, request_timestamps, WakeTime(r), req[r])
    /\ UNCHANGED <<created, context, page, live, uses_count, pool, spawning, recycling,
                   lockWaiters, ticks>>

(***************************************************************************)
(* The clock advances by d seconds while every coroutine is suspended.     *)
(***************************************************************************)
TickUpTo(n) ==
    /\ ticks < n
    /\ ticks' = ticks + 1
    /\ \E d \in TickSteps : now' = now + d
    /\ UNCHANGED <<created, context, page, live, uses_count, pool, spawning, recycling,
                   request_timestamps, lockHolder, lockWaiters, req,
                   admitLog>>

(***************************************************************************)
(* token_resp = await client.post(self.api_token_url, ...) and the checks  *)
(* on it.  The backend answers 200 with success, a non-200 status, a body  *)
(* without success, or the call (or token_resp.json()) raises.             *)
(***************************************************************************)
TokenOutcomes == {"ok", "token_non200", "token_rejected", "token_raise"}

TokenExchange(r) ==
    /\ req[r].pc = "token"
    /\ req[r].worker # NoWorker
    /\ \E o \in TokenOutcomes :
        IF o = "ok"
        THEN /\ req' = [req EXCEPT ![r].pc = "gen",
                                   ![r].backendCalls = @ \cup {"token"}]
             /\ UNCHANGED <<pool, recycling>>
        ELSE ExceptHandler(r, o)
    /\ UNCHANGED <<created, context, page, live, uses_count, spawning,
                   request_timestamps, lockHolder, lockWaiters, now,
                   admitLog, ticks>>

(***************************************************************************)
(* if chat_resp.status_code == 400 and "quota limit" in chat_resp.text:    *)
(* the worker is put back and a 429 JSONResponse is returned.              *)
(***************************************************************************)
\* the quota limit treated like any other exception
QuotaLimitResponse_recycles(r, o) ==
    /\ recycling' = [recycling EXCEPT ![req[r].worker] = @ + 1]
    /\ req' = [req EXCEPT ![r] = Ended(QuotaStatus, ErrorText(o), o, FALSE, TRUE)]
    /\ UNCHANGED pool

\* the quota limit answered with the handler's status
QuotaLimitResponse_as500(r, o) ==
    /\ pool' = Append(pool, req[r].worker)
    /\ req' = [req EXCEPT ![r] = Ended(HandlerStatus, ErrorText(o), o, TRUE, FALSE)]
    /\ UNCHANGED recycling

QuotaLimitResponse(r, o) ==
    /\ pool' = Append(pool, req[r].worker)
    /\ req' = [req EXCEPT ![r] = Ended(QuotaStatus, ErrorText(o), o, TRUE, FALSE)]
    /\ UNCHANGED recycling

(***************************************************************************)
(* Texts are sequences of tokens: a token is one character, or one of the  *)
(* character groups _clean_response_text looks for, kept in one piece:     *)
(*   "<br>"       a line-break tag (<br>, <br/> or <br />)                 *)
(*   "&lt;br&gt;" the same tag with its brackets entity-encoded            *)
(*   "&amp;lt;"   an entity-encoded "&lt;", and "&lt;" an encoded "<"      *)
(*   "[model:"    the opening of a model tag, "Toolbaz" the label's word   *)
(*   "NL"         a newline                                                *)
(***************************************************************************)
Whitespace == {" ", "NL"}

Letters ==
    <<"a", "b", "c", "d", "e", "f", "g", "h", "i", "j", "k", "l", "m",
      "n", "o", "p", "q", "r", "s", "t", "u", "v", "w", "x", "y", "z">>

Min(S) == CHOOSE j \in S : \A k \in S : j <= k

Max(S) == CHOOSE j \in S : \A k \in S : j >= k

\* The first position from `from` on holding a token of X, 0 when none.
FirstOf(t, X, from) ==
    LET S == {j \in from..Len(t) : t[j] \in X}
    IN  IF S = {} THEN 0 ELSE Min(S)

\* text.replace("<br>", "\n").replace("<br/>", "\n").replace("<br />", "\n")
ReplaceBr(t) == [i \in 1..Len(t) |-> IF t[i] = "<br>" THEN "NL" ELSE t[i]]

\* html.unescape(text): every character reference is decoded once.
Unescape(t) ==
    [i \in 1..Len(t) |->
        CASE t[i] = "&lt;br&gt;" -> "<br>"
          [] t[i] = "&amp;lt;" -> "&lt;"
          [] t[i] = "&lt;" -> "<"
          [] OTHER -> t[i]]

\* re.sub(r'^\[model:.*?\]\s*', '', text): the tag ends at the first "]"
\* of the first line; the white space behind it goes too.
ModelTagEnd(t) ==
    IF Len(t) >= 1 /\ t[1] = "[model:"
    THEN LET j == FirstOf(t, {"]", "NL"}, 2)
         IN  IF j # 0 /\ t[j] = "]" THEN j ELSE 0
    ELSE 0

StripModelTag(t) ==
    LET j == ModelTagEnd(t)
        rest == {k \in (j + 1)..Len(t) : t[k] \notin Whitespace}
    IN  IF j = 0 THEN t
        ELSE IF rest = {} THEN <<>>
        ELSE SubSeq(t, Min(rest), Len(t))

\* re.sub(r'^Toolbaz.*?:', '', text): the label ends at the first ":" of
\* the first line (the one of "[model:" included).
ToolbazLabelEnd(t) ==
    IF Len(t) >= 1 /\ t[1] = "Toolbaz"
    THEN LET j == FirstOf(t, {":", "[model:", "NL"}, 2)
         IN  IF j # 0 /\ t[j] # "NL" THEN j ELSE 0
    ELSE 0

StripToolbazLabel(t) ==
    LET j == ToolbazLabelEnd(t)
    IN  IF j = 0 THEN t ELSE SubSeq(t, j + 1, Len(t))

\* text.strip()
Strip(t) ==
    LET S == {k \in 1..Len(t) : t[k] \notin Whitespace}
    IN  IF S = {} THEN <<>> ELSE SubSeq(t, Min(S), Max(S))

(***************************************************************************)
(* _clean_response_text(text)                                              *)
(***************************************************************************)
\* the same steps with strip() done first
CleanResponseText_stripFirst(text) ==
    IF text = <<>> THEN <<>>
    ELSE StripToolbazLabel(StripModelTag(Unescape(ReplaceBr(Strip(text)))))

CleanResponseText(text) ==
    IF text = <<>> THEN <<>>
    ELSE Strip(StripToolbazLabel(StripModelTag(Unescape(ReplaceBr(text)))))

(***************************************************************************)
(* The body of the backend's answer whose text proper has n characters:    *)
(* a model tag, a blank, the text.                                         *)
(***************************************************************************)
BackendText(n) ==
    <<"[model:", "m", "]", " ">> \o [i \in 1..n |-> Letters[((i - 1) % 26) + 1]]

(***************************************************************************)
(* The items of the event stream.  create_chat_completion_chunk and        *)
(* DONE_CHUNK are defined in app/utils/sse_utils.py: a chunk carries the   *)
(* content it is given; the stop chunk has empty content and the finish    *)
(* reason "stop".                                                          *)
(***************************************************************************)
ContentChunk(part) == [kind |-> "content", content |-> part]

StopChunk == [kind |-> "stop", content |-> <<>>]

DONE_CHUNK == [kind |-> "done", content |-> <<>>]

\* "content": clean_text of the non-streaming response (line 311)
ResponseContent(text) == text

(***************************************************************************)
(* if not stream: the worker is put back and the whole text is returned.   *)
(***************************************************************************)
NonStreamResponse(r) ==
    /\ pool' = Append(pool, req[r].worker)
    /\ req' = [req EXCEPT ![r] = Ended(OkStatus, "none", "ok", TRUE, FALSE)]
    /\ UNCHANGED recycling

(***************************************************************************)
(* return StreamingResponse(stream_generator(), ...): the generator object *)
(* is created over clean_text (n characters after cleaning), none of its   *)
(* body has run,                                                           *)
(* and it keeps the worker.                                                *)
(***************************************************************************)
StreamingResponse(r, n) ==
    /\ req' = [req EXCEPT ![r].pc = "stream_new",
                          ![r].clean_text = CleanResponseText(BackendText(n)),
                          ![r].textLen = Len(CleanResponseText(BackendText(n))),
                          ![r].status = OkStatus, ![r].cause = "ok",
                          ![r].backendCalls = @ \cup {"gen"}]
    /\ UNCHANGED <<pool, recycling>>

(***************************************************************************)
(* chat_resp = await client.post(self.api_writing_url, ...) and the rest   *)
(* of chat_completion.                                                     *)
(***************************************************************************)
GenOutcomes == {"ok", "gen_quota", "gen_non200", "gen_raise"}

Generation(r) ==
    /\ req[r].pc = "gen"
    /\ \E o \in GenOutcomes :
        CASE o = "gen_quota" -> QuotaLimitResponse(r, o)
          [] o \in {"gen_non200", "gen_raise"} -> ExceptHandler(r, o)
          [] o = "ok" ->
                 IF req[r].stream
                 THEN \E n \in TextLens : StreamingResponse(r, n)
                 ELSE NonStreamResponse(r)
    /\ UNCHANGED <<created, context, page, live, uses_count, spawning,
                   request_timestamps, lockHolder, lockWaiters, now,
                   admitLog, ticks>>

(***************************************************************************)
(* stream_generator(): the consumer asks for the next item.  The generator *)
(* yields the slices of clean_text, then the stop chunk, then DONE_CHUNK;  *)
(* resumed after DONE_CHUNK it leaves the try block and the finally clause *)
(* puts the worker back.                                                   *)
(***************************************************************************)
SliceEnd(i, n) == IF i + chunk_size < n THEN i + chunk_size ELSE n

\* part = clean_text[i:i+chunk_size], with the slice ending one short
Part_short(text, i) == SubSeq(text, i + 1, SliceEnd(i, Len(text)) - 1)

\* part = clean_text[i:i+chunk_size]
Part(text, i) == SubSeq(text, i + 1, SliceEnd(i, Len(text)))

StreamPcs == {"stream_new", "stream_slice", "stream_stop", "stream_end"}

\* finally: await self.pool.put(worker)
GeneratorFinally(r) ==
    /\ pool' = Append(pool, req[r].worker)
    /\ req' = [req EXCEPT ![r] = Ended(req[r].status, "none", req[r].cause,
                                       TRUE, FALSE)]

StreamNext(r) ==
    /\ req[r].pc \in StreamPcs
    /\ CASE req[r].pc \in {"stream_new", "stream_slice"}
              /\ req[r].sent < req[r].textLen ->
                 /\ req' = [req EXCEPT
                              ![r].sent = SliceEnd(req[r].sent, req[r].textLen),
                              ![r].events = Append(@, ContentChunk(
                                  Part(req[r].clean_text, req[r].sent))),
                              ![r].pc = "stream_slice"]
                 /\ UNCHANGED pool
          [] req[r].pc \in {"stream_new", "stream_slice"}
              /\ req[r].sent >= req[r].textLen ->
                 /\ req' = [req EXCEPT ![r].pc = "stream_stop",
                                       ![r].events = Append(@, StopChunk)]
                 /\ UNCHANGED pool
          [] req[r].pc = "stream_stop" ->
                 /\ req' = [req EXCEPT ![r].pc = "stream_end",
                                       ![r].events = Append(@, DONE_CHUNK)]
                 /\ UNCHANGED pool
          [] req[r].pc = "stream_end" ->
                 GeneratorFinally(r)
    /\ UNCHANGED <<created, context, page, live, uses_count, spawning, recycling,
                   request_timestamps, lockHolder, lockWaiters, now,
                   admitLog, ticks>>

(***************************************************************************)
(* The consumer gives the stream up (the client goes away).  A generator   *)
(* suspended inside its try block is closed: the exception is raised at    *)
(* the point of suspension and the finally clause runs.  In a generator    *)
(* that was never started no statement has been reached, so closing or     *)
(* discarding it runs nothing of its body, the finally clause included.    *)
(***************************************************************************)
GeneratorDiscarded(r) ==
    /\ req' = [req EXCEPT ![r] = Ended(req[r].status, "none", req[r].cause,
                                       FALSE, FALSE)]
    /\ UNCHANGED pool

StreamAbandon(r) ==
    /\ req[r].pc \in StreamPcs
    /\ IF req[r].pc = "stream_new"
       THEN GeneratorDiscarded(r)
       ELSE GeneratorFinally(r)
    /\ UNCHANGED <<created, context, page, live, uses_count, spawning, recycling,
                   request_timestamps, lockHolder, lockWaiters, now,
                   admitLog, ticks>>

(***************************************************************************)
(* The service: startup fan-out, background tasks, requests, the clock.    *)
(***************************************************************************)
Next ==
    \/ Initialize
    \/ \E w \in Workers : InitAndPushWorker(w)
    \/ \E w \in Workers : RecycleWorker(w)
    \/ \E r \in Requests : ChatCompletion(r)
    \/ \E r \in Requests : PoolGet(r)
    \/ \E r \in Requests : StalenessCheck(r)
    \/ \E r \in Requests : Credentials(r)
    \/ \E r \in Requests : Reinit(r)
    \/ \E r \in Requests : CredentialsRetry(r)
    \/ \E r \in Requests : WaitForRateLimit(r)
    \/ \E r \in Requests : LockGranted(r)
    \/ \E r \in Requests : SleepDone(r)
    \/ \E r \in Requests : TokenExchange(r)
    \/ \E r \in Requests : Generation(r)
    \/ \E r \in Requests : StreamNext(r)
    \/ \E r \in Requests : StreamAbandon(r)

Spec == Init /\ [][Next]_vars

(***************************************************************************)
(* _wait_for_rate_limit() on its own: any caller may call it at any time,  *)
(* and the clock advances freely between the steps.                        *)
(***************************************************************************)
LimiterCall(r) ==
    /\ req[r].pc = "idle"
    /\ Len(admitLog) + Cardinality(Unadmitted) < MaxLimiterAdmissions
    /\ req' = [req EXCEPT ![r].pc = "ratelimit"]
    /\ UNCHANGED <<created, context, page, live, uses_count, pool, spawning, recycling,
                   request_timestamps, lockHolder, lockWaiters, now,
                   admitLog, ticks>>

LimiterReturn(r) ==
    /\ req[r].pc = "token"
    /\ req[r].worker = NoWorker
    /\ req' = [req EXCEPT ![r] = NewFrame]
    /\ UNCHANGED <<created, context, page, live, uses_count, pool, spawning, recycling,
                   request_timestamps, lockHolder, lockWaiters, now,
                   admitLog, ticks>>

LimiterTick == TickUpTo(MaxLimiterTicks)

LimiterNext ==
    \/ \E r \in Requests : LimiterCall(r)
    \/ \E r \in Requests : WaitForRateLimit(r)
    \/ \E r \in Requests : LockGranted(r)
    \/ \E r \in Requests : SleepDone(r)
    \/ \E r \in Requests : LimiterReturn(r)
    \/ LimiterTick

LimiterSpec == Init /\ [][LimiterNext]_vars

(***************************************************************************)
(* _wait_for_rate_limit() called by NumFifoCallers callers; time passes    *)
(* only while a caller sleeps.                                             *)
(***************************************************************************)
FifoInit ==
    /\ ProviderInit
    /\ req = [r \in FifoCallers |-> NewFrame]

FifoCall(r) ==
    /\ req[r].pc = "idle"
    /\ Len(admitLog) + Cardinality(Unadmitted) < MaxFifoAdmissions
    /\ req' = [req EXCEPT ![r].pc = "ratelimit"]
    /\ UNCHANGED <<created, context, page, live, uses_count, pool, spawning,
                   recycling, request_timestamps, lockHolder, lockWaiters,
                   now, admitLog, ticks>>

FifoNext ==
    \/ \E r \in FifoCallers : FifoCall(r)
    \/ \E r \in FifoCallers : WaitForRateLimit(r)
    \/ \E r \in FifoCallers : LockGranted(r)
    \/ \E r \in FifoCallers : SleepDone(r)
    \/ \E r \in FifoCallers : LimiterReturn(r)

FifoSpec == FifoInit /\ [][FifoNext]_vars

(***************************************************************************)
(* stream_generator() on its own: a streaming call has returned its        *)
(* StreamingResponse over a cleaned text of any length up to               *)
(* MaxDeliveryLen, holding worker Subject; the other workers are in the    *)
(* pool.                                                                   *)
(***************************************************************************)
DeliveryInit ==
    /\ created = BROWSER_POOL_SIZE
    /\ context = [w \in Workers |-> TRUE]
    /\ page = [w \in Workers |-> TRUE]
    /\ live = [w \in Workers |-> 1]
    /\ uses_count = [w \in Workers |-> IF w = Subject THEN 1 ELSE 0]
    /\ \E q \in [1..(BROWSER_POOL_SIZE - 1) -> Workers \ {Subject}] :
          /\ \A i, j \in DOMAIN q : i < j => q[i] < q[j]
          /\ pool = q
    /\ spawning = [w \in Workers |-> 0]
    /\ recycling = [w \in Workers |-> 0]
    /\ request_timestamps = <<0>>
    /\ lockHolder = NoRequest
    /\ lockWaiters = <<>>
    /\ now = 0
    /\ admitLog = <<0>>
    /\ ticks = 0
    /\ \E n \in 0..MaxDeliveryLen :
          req = [r \in Requests |->
                    IF r = Driver
                    THEN [NewFrame EXCEPT
                            !.pc = "stream_new", !.worker = Subject,
                            !.stream = TRUE,
                            !.clean_text = CleanResponseText(BackendText(n)),
                            !.textLen = Len(CleanResponseText(BackendText(n))),
                            !.status = OkStatus, !.cause = "ok",
                            !.credCalls = 1, !.evalUses = 0,
                            !.submitAt = 0, !.admitted = TRUE, !.admitAt = 0,
                            !.backendCalls = {"token", "gen"}]
                    ELSE NewFrame]

DeliveryNext ==
    \/ StreamNext(Driver)
    \/ StreamAbandon(Driver)

DeliverySpec == DeliveryInit /\ [][DeliveryNext]_vars

(***************************************************************************)
(* The methods of one BrowserWorker called one after the other, in any     *)
(* order; the caller's frame keeps what the call was given and what it     *)
(* returned.                                                               *)
(***************************************************************************)
CallInit(r, w) ==
    /\ \E setup \in SetupOutcomes, navs \in NavScripts :
          LET run == InitRun(WorkerState(w), setup, Navigate(navs, 0))
          IN  /\ SetWorker(w, run.ws)
              /\ req' = [req EXCEPT ![r] =
                            [NewFrame EXCEPT
                                !.pc = "called", !.worker = w, !.op = "init",
                                !.setup = setup, !.navs = navs,
                                !.path = IF context[w] THEN "teardown"
                                                       ELSE "fresh",
                                !.result = IF run.ok THEN "True" ELSE "False",
                                !.attempts = run.attempts,
                                !.usesBefore = uses_count[w]]]
    /\ UNCHANGED <<created, pool, spawning, recycling, request_timestamps,
                   lockHolder, lockWaiters, now, admitLog, ticks>>

CallGetTokenData(r, w) ==
    /\ uses_count[w] < MaxWorkerUses
    /\ \E o \in GetTokenData(w) :
          /\ SetWorker(w, o.ws)
          /\ req' = [req EXCEPT ![r] =
                        [NewFrame EXCEPT
                            !.pc = "called", !.worker = w,
                            !.op = "get_token_data", !.result = o.result,
                            !.path = o.path, !.inited = o.inited,
                            !.evalUses = o.evalUses,
                            !.usesBefore = uses_count[w]]]
    /\ UNCHANGED <<created, pool, spawning, recycling, request_timestamps,
                   lockHolder, lockWaiters, now, admitLog, ticks>>

CallClose(r, w) ==
    /\ SetWorker(w, Close(WorkerState(w)))
    /\ req' = [req EXCEPT ![r] =
                  [NewFrame EXCEPT
                      !.pc = "called", !.worker = w, !.op = "close",
                      !.path = IF context[w] THEN "closed" ELSE "no_context",
                      !.result = "None", !.usesBefore = uses_count[w]]]
    /\ UNCHANGED <<created, pool, spawning, recycling, request_timestamps,
                   lockHolder, lockWaiters, now, admitLog, ticks>>

WorkerNext ==
    \/ CallInit(Driver, Subject)
    \/ CallGetTokenData(Driver, Subject)
    \/ CallClose(Driver, Subject)

WorkerSpec == Init /\ [][WorkerNext]_vars

(***************************************************************************)
(* _clean_response_text() called on a raw text, and once more on its own   *)
(* result.                                                                 *)
(***************************************************************************)
RawTokens ==
    {"a", " ", "NL", "<br>", "&lt;br&gt;", "&amp;lt;", "[model:", "]",
     "Toolbaz", ":"}

RawTexts == UNION { [1..n -> RawTokens] : n \in 0..MaxRawLen }

CleanInit ==
    /\ ProviderInit
    /\ \E t \in RawTexts :
          req = [r \in Requests |->
                    IF r = Driver
                    THEN [NewFrame EXCEPT !.pc = "raw", !.chat_text = t]
                    ELSE NewFrame]

CleanCall(r) ==
    /\ req[r].pc = "raw"
    /\ req' = [req EXCEPT ![r].pc = "cleaned",
                          ![r].clean_text = CleanResponseText(req[r].chat_text)]
    /\ UNCHANGED <<created, context, page, live, uses_count, pool, spawning,
                   recycling, request_timestamps, lockHolder, lockWaiters,
                   now, admitLog, ticks>>

CleanAgain(r) ==
    /\ req[r].pc = "cleaned"
    /\ req' = [req EXCEPT ![r].pc = "recleaned",
                          ![r].again = CleanResponseText(req[r].clean_text)]
    /\ UNCHANGED <<created, context, page, live, uses_count, pool, spawning,
                   recycling, request_timestamps, lockHolder, lockWaiters,
                   now, admitLog, ticks>>

CleanNext ==
    \/ CleanCall(Driver)
    \/ CleanAgain(Driver)

CleanSpec == CleanInit /\ [][CleanNext]_vars

(***************************************************************************)
(*                             Properties                                  *)
(***************************************************************************)
RECURSIVE SumOver(_, _)
SumOver(f, S) ==
    IF S = {} THEN 0
    ELSE LET x == CHOOSE y \in S : TRUE IN f[x] + SumOver(f, S \ {x})

InPool(w) == \E i \in 1..Len(pool) : pool[i] = w

Holders(w) == {r \in Requests : req[r].worker = w}

HeldWorkers == Cardinality({r \in Requests : req[r].worker # NoWorker})

StartupDone ==
    created = BROWSER_POOL_SIZE /\ \A w \in Workers : spawning[w] = 0

IsDone(r) == req[r].pc = "done"

\* The failure kinds of the specification's error taxonomy.
Kind(c) ==
    CASE c = "cred_twice" -> "CredError"
      [] c \in {"token_non200", "token_rejected", "gen_non200"} -> "UpstreamError"
      [] c = "gen_quota" -> "SoftThrottle"
      [] c \in {"cred_raise", "token_raise", "gen_raise"} -> "UnhandledError"
      [] OTHER -> "none"

UpstreamCauses == {"token_non200", "token_rejected", "gen_non200"}

\* Admissions of the limiter in the 60 seconds starting at time t.
AdmittedFrom(t) ==
    Cardinality({j \in 1..Len(admitLog) :
                    admitLog[j] >= t /\ admitLog[j] < t + WINDOW})

(***************************************************************************)
(* C1: once the startup fan-out has completed, the workers in the pool     *)
(* queue, held by a request (a pending stream generator included) or held  *)
(* by a recycle task number BROWSER_POOL_SIZE.                             *)
(* Violated: a stream generator given up before its first item never runs  *)
(* its finally clause, and its worker is in none of the three places.      *)
(***************************************************************************)
C1_PoolConservation ==
    StartupDone =>
        Len(pool) + HeldWorkers + SumOver(recycling, Workers) = BROWSER_POOL_SIZE

(***************************************************************************)
(* C2: a worker handed to a request by pool.get() is not in the pool, is   *)
(* held by no other request and by no recycle or startup task until that   *)
(* request has put it back or handed it to _recycle_worker; and no request *)
(* does both.                                                              *)
(***************************************************************************)
C2_ExclusiveHold ==
    /\ \A r \in Requests :
          req[r].worker # NoWorker =>
              /\ ~InPool(req[r].worker)
              /\ Holders(req[r].worker) = {r}
              /\ recycling[req[r].worker] = 0
              /\ spawning[req[r].worker] = 0
    /\ \A r \in Requests : ~(req[r].didPut /\ req[r].didRecycle)

C2_Witness ==
    \E r1, r2 \in Requests :
        /\ r1 # r2
        /\ req[r1].worker # NoWorker
        /\ req[r2].worker # NoWorker
        /\ req[r1].pc = "gen"
        /\ req[r2].pc \in StreamPcs

(***************************************************************************)
(* C3: in any 60-second window the limiter admits at most                  *)
(* MAX_REQUESTS_PER_MINUTE requests, whatever the number of callers and    *)
(* their arrival times.                                                    *)
(***************************************************************************)
C3_WindowCeiling ==
    \A i \in 1..Len(admitLog) :
        AdmittedFrom(admitLog[i]) <= MAX_REQUESTS_PER_MINUTE

C3_Witness ==
    /\ Len(admitLog) > MAX_REQUESTS_PER_MINUTE
    /\ AdmittedFrom(admitLog[1]) = MAX_REQUESTS_PER_MINUTE
    /\ AdmittedFrom(admitLog[2]) = MAX_REQUESTS_PER_MINUTE

(***************************************************************************)
(* C4: a request that finds the window full is admitted no earlier than    *)
(* 60 - (now - oldest) + 1 seconds after it was submitted, that is at      *)
(* least 61 seconds after the oldest retained timestamp.                   *)
(***************************************************************************)
C4_ExcessDelay ==
    \A r \in Requests :
        (req[r].admitted /\ req[r].oldest_request # NoTime) =>
            /\ req[r].admitAt >= req[r].oldest_request + 61
            /\ req[r].admitAt - req[r].submitAt >=
                   60 - (req[r].current_time - req[r].oldest_request) + 1

C4_Witness ==
    \E r \in Requests :
        /\ req[r].admitted
        /\ req[r].oldest_request # NoTime
        /\ req[r].submitAt < req[r].current_time

(***************************************************************************)
(* C5: no backend call of a request is made before the limiter has         *)
(* admitted the request; a request that found the window full makes its    *)
(* backend calls only after the limiter has delayed it, so that it is not  *)
(* a fifth admission within 60 seconds.                                    *)
(***************************************************************************)
C5_BackendAfterAdmission ==
    \A r \in Requests :
        req[r].backendCalls # {} =>
            /\ req[r].admitted
            /\ req[r].admitAt <= now
            /\ AdmittedFrom(req[r].admitAt - WINDOW + 1) <= MAX_REQUESTS_PER_MINUTE
            /\ req[r].oldest_request # NoTime =>
                   req[r].admitAt > req[r].submitAt

C5_Witness ==
    \E r \in Requests :
        /\ req[r].backendCalls = {"token", "gen"}
        /\ req[r].oldest_request # NoTime
        /\ Len(admitLog) = MAX_REQUESTS_PER_MINUTE + 1

(***************************************************************************)
(* C6 (as stated): after a non-200 or unsuccessful token exchange, or a    *)
(* non-200 generation call other than the quota limit, the request has put *)
(* its worker back into the pool itself and has not handed it to the       *)
(* recycle path.                                                           *)
(***************************************************************************)
C6_UpstreamReturnsWorker ==
    \A r \in Requests :
        (IsDone(r) /\ req[r].cause \in UpstreamCauses) =>
            (req[r].didPut /\ ~req[r].didRecycle)

(***************************************************************************)
(* C6 (amended): the step that ends a request on such an upstream error    *)
(* answers 500, starts a _recycle_worker task for the worker and does not  *)
(* put the worker into the pool.                                           *)
(***************************************************************************)
C6_UpstreamRecyclesWorker ==
    [][\A r \in Requests :
          (~IsDone(r) /\ req'[r].pc = "done" /\ req'[r].cause \in UpstreamCauses) =>
              /\ req'[r].status = 500
              /\ recycling'[req[r].worker] = recycling[req[r].worker] + 1
              /\ pool' = pool
              /\ req'[r].didRecycle /\ ~req'[r].didPut]_vars

C6_Witness ==
    \E r \in Requests, w \in Workers :
        /\ IsDone(r)
        /\ req[r].cause \in UpstreamCauses
        /\ req[r].status = 500
        /\ recycling[w] > 0
        /\ ~InPool(w)

(***************************************************************************)
(* C7: when the generation call answers 400 with "quota limit", the step   *)
(* that returns the response returns status 429 and has put the request's  *)
(* worker at the end of the pool queue; no recycle task is started.        *)
(***************************************************************************)
C7_QuotaLimitReturnsWorker ==
    [][\A r \in Requests :
          (req[r].pc = "gen" /\ req'[r].cause = "gen_quota") =>
              /\ req'[r].pc = "done"
              /\ req'[r].status = 429
              /\ pool' = Append(pool, req[r].worker)
              /\ recycling' = recycling]_vars

C7_Witness ==
    \E r \in Requests :
        /\ IsDone(r)
        /\ req[r].cause = "gen_quota"
        /\ req[r].status = 429
        /\ req[r].didPut
        /\ Len(pool) = BROWSER_POOL_SIZE

(***************************************************************************)
(* C8: when get_token_data fails a second time, after the reinit, the same *)
(* step answers the caller with the credential error (status 500, "Token   *)
(* generation failed") and starts the recycle task; a worker held by a     *)
(* recycle task is not in the pool, and enters it only in a step of that   *)
(* task whose init() succeeded.                                            *)
(***************************************************************************)
C8_CredErrorRecycles ==
    /\ [](\A w \in Workers : recycling[w] > 0 => ~InPool(w))
    /\ [][/\ \A r \in Requests :
                (~IsDone(r) /\ req'[r].cause = "cred_twice") =>
                    /\ req[r].pc = "cred2"
                    /\ req[r].credFails = 1
                    /\ req'[r].pc = "done"
                    /\ req'[r].status = 500
                    /\ req'[r].message = "Token generation failed"
                    /\ recycling'[req[r].worker] = recycling[req[r].worker] + 1
                    /\ ~InPool(req[r].worker)'
          /\ \A w \in Workers :
                (recycling[w] > 0 /\ InPool(w)') =>
                    (recycling'[w] = recycling[w] - 1 /\ context'[w])]_vars

C8_Witness ==
    \E r \in Requests, w \in Workers :
        /\ IsDone(r)
        /\ req[r].cause = "cred_twice"
        /\ recycling[w] > 0
        /\ ~context[w]
        /\ ~InPool(w)

(***************************************************************************)
(* C9 (as stated): two requests that failed in different kinds (CredError, *)
(* UpstreamError, SoftThrottle, UnhandledError) show the caller different  *)
(* statuses.                                                               *)
(***************************************************************************)
FailureKinds == {"CredError", "UpstreamError", "SoftThrottle", "UnhandledError"}

C9_DistinctStatusPerKind ==
    \A r1, r2 \in Requests :
        ( /\ IsDone(r1) /\ IsDone(r2)
          /\ Kind(req[r1].cause) \in FailureKinds
          /\ Kind(req[r2].cause) \in FailureKinds
          /\ Kind(req[r1].cause) # Kind(req[r2].cause) )
        => req[r1].status # req[r2].status

(***************************************************************************)
(* C9 (amended): only SoftThrottle has a status of its own, 429; CredError,*)
(* UpstreamError and UnhandledError all show status 500, and CredError and *)
(* UpstreamError differ in the text of the error message only.             *)
(***************************************************************************)
C9_StatusByKind ==
    /\ \A r \in Requests :
          IsDone(r) =>
              /\ Kind(req[r].cause) = "SoftThrottle" <=> req[r].status = 429
              /\ Kind(req[r].cause) \in FailureKinds \ {"SoftThrottle"}
                     <=> req[r].status = 500
    /\ \A r1, r2 \in Requests :
          ( /\ IsDone(r1) /\ IsDone(r2)
            /\ Kind(req[r1].cause) = "CredError"
            /\ Kind(req[r2].cause) = "UpstreamError" )
          => req[r1].message # req[r2].message

C9_Witness ==
    \E r1, r2 \in Requests :
        /\ IsDone(r1) /\ IsDone(r2)
        /\ Kind(req[r1].cause) = "CredError"
        /\ Kind(req[r2].cause) = "UpstreamError"
        /\ req[r1].status = req[r2].status

(***************************************************************************)
(* C10: every worker taken out of the pool by a request is eventually      *)
(* returned: a request that is over has put its worker back into the pool  *)
(* or handed it to _recycle_worker.                                        *)
(* Violated: the request whose stream generator is given up before its     *)
(* first item is over and has done neither.                                *)
(***************************************************************************)
C10_WorkerFateResolved ==
    \A r \in Requests : IsDone(r) => (req[r].didPut \/ req[r].didRecycle)

(***************************************************************************)
(* C11: in streaming mode the worker is put back however the stream ends,  *)
(* also when the consumer gives the stream up after any number of slices,  *)
(* zero included: a request whose backend calls succeeded and which is     *)
(* over has put its worker back.                                           *)
(* Violated: a generator given up before its first item runs none of its   *)
(* body, its finally clause included.                                      *)
(***************************************************************************)
C11_StreamAlwaysPutsBack ==
    \A r \in Requests :
        (IsDone(r) /\ req[r].cause = "ok" /\ req[r].status = OkStatus) =>
            req[r].didPut

(***************************************************************************)
(* C12: the content chunks of a stream come first, then the stop chunk,    *)
(* then the end sentinel; and once the sentinel is out, the contents of    *)
(* the content chunks, concatenated in order, are the content of the       *)
(* non-streaming response for the same cleaned text (the empty text        *)
(* included).                                                              *)
(***************************************************************************)
RECURSIVE ContentOf(_)
ContentOf(events) ==
    IF events = <<>> THEN <<>>
    ELSE IF Head(events).kind = "content"
         THEN Head(events).content \o ContentOf(Tail(events))
         ELSE ContentOf(Tail(events))

KindRank(k) == CASE k = "content" -> 1 [] k = "stop" -> 2 [] k = "done" -> 3

C12_StreamEqualsBuffered ==
    \A r \in Requests :
        LET ev == req[r].events
        IN  /\ \A i, j \in 1..Len(ev) :
                  i < j => KindRank(ev[i].kind) <= KindRank(ev[j].kind)
            /\ req[r].pc = "stream_end" =>
                  /\ ContentOf(ev) = ResponseContent(req[r].clean_text)
                  /\ Len(ev) >= 2
                  /\ ev[Len(ev) - 1] = StopChunk
                  /\ ev[Len(ev)] = DONE_CHUNK
                  /\ \A i \in 1..(Len(ev) - 2) : ev[i].kind = "content"

C12_Witness ==
    \E r \in Requests :
        /\ req[r].pc = "stream_end"
        /\ Len(req[r].clean_text) = 2 * chunk_size + 1
        /\ Len(req[r].events) = 5

(***************************************************************************)
(* C13 (as stated): cleaning a cleaned text gives the same text.           *)
(***************************************************************************)
C13_CleanIdempotent ==
    \A r \in Requests :
        req[r].pc = "recleaned" => req[r].again = req[r].clean_text

(***************************************************************************)
(* C13 (amended): cleaning a cleaned text gives the same text when the     *)
(* first cleaning left nothing to clean: no line-break tag, no character   *)
(* reference, no model tag or Toolbaz label at the start.                  *)
(***************************************************************************)
Settled(c) ==
    /\ \A i \in 1..Len(c) :
          c[i] \notin {"<br>", "&lt;br&gt;", "&amp;lt;", "&lt;"}
    /\ ModelTagEnd(c) = 0
    /\ ToolbazLabelEnd(c) = 0

C13_CleanIdempotentWhenSettled ==
    \A r \in Requests :
        (req[r].pc = "recleaned" /\ Settled(req[r].clean_text)) =>
            req[r].again = req[r].clean_text

C13_Witness ==
    \E r \in Requests :
        /\ req[r].pc = "recleaned"
        /\ Settled(req[r].clean_text)
        /\ Len(req[r].chat_text) = MaxRawLen
        /\ req[r].chat_text[1] = "[model:"
        /\ req[r].clean_text = <<"a">>
        /\ req[r].again = <<"a">>

(***************************************************************************)
(* C14: an init() whose every page.goto() fails with a timeout-class error *)
(* returns False after exactly 3 goto calls, and the worker then has no    *)
(* context and no page and no context of it is left open in the browser.   *)
(***************************************************************************)
AllTimeout(navs) ==
    /\ Len(navs) = max_retries
    /\ \A i \in 1..Len(navs) : navs[i] = "timeout"

C14_InitGivesUpAfterThree ==
    [][\A r \in DOMAIN req :
          ( /\ req'[r].op = "init"
            /\ req'[r].setup = "ok"
            /\ AllTimeout(req'[r].navs) ) =>
              /\ req'[r].result = "False"
              /\ req'[r].attempts = 3
              /\ ~context'[req'[r].worker]
              /\ ~page'[req'[r].worker]
              /\ live'[req'[r].worker] = 0]_vars

C14_Witness ==
    \E r \in Requests :
        /\ req[r].op = "init"
        /\ req[r].setup = "ok"
        /\ AllTimeout(req[r].navs)
        /\ req[r].path = "teardown"
        /\ req[r].attempts = 3
        /\ ~context[req[r].worker]

(***************************************************************************)
(* C15 (as stated): every call of get_token_data leaves uses_count one     *)
(* higher than it found it, whatever the outcome.                          *)
(***************************************************************************)
C15_EveryCallIncrements ==
    [][\A r \in DOMAIN req :
          req'[r].op = "get_token_data" =>
              uses_count'[req'[r].worker] = uses_count[req'[r].worker] + 1]_vars

(***************************************************************************)
(* C15 (amended): a call of get_token_data increments uses_count by one    *)
(* when page.evaluate() returns (credentials or an error marker of the     *)
(* page), and leaves it alone when the call returns early (re-init failed, *)
(* reload failed) or page.evaluate() raises; a call that first             *)
(* re-initialised the worker counts from 0.                                *)
(***************************************************************************)
C15_IncrementsOnExtraction ==
    [][\A r \in DOMAIN req :
          req'[r].op = "get_token_data" =>
              LET w == req'[r].worker
                  base == IF req'[r].inited /\ req'[r].path # "reinit_failed"
                          THEN 0 ELSE uses_count[w]
              IN  /\ req'[r].path \in {"ok", "error_marker"} =>
                        uses_count'[w] = base + 1
                  /\ req'[r].path \in {"reinit_failed", "reload_failed",
                                       "evaluate_raised"} =>
                        uses_count'[w] = base]_vars

C15_Witness ==
    \E r \in Requests :
        /\ req[r].op = "get_token_data"
        /\ req[r].path = "reload_failed"
        /\ ~req[r].inited
        /\ req[r].usesBefore = 1
        /\ uses_count[req[r].worker] = 1

(***************************************************************************)
(* C16 (as stated): request_timestamps never holds more than               *)
(* MAX_REQUESTS_PER_MINUTE timestamps.                                     *)
(***************************************************************************)
C16_WindowListCeiling ==
    Len(request_timestamps) <= MAX_REQUESTS_PER_MINUTE

(***************************************************************************)
(* C16 (amended): request_timestamps never holds more than                 *)
(* MAX_REQUESTS_PER_MINUTE + 1 timestamps, and at most                     *)
(* MAX_REQUESTS_PER_MINUTE of them lie within the 60 seconds before the    *)
(* newest one.                                                             *)
(***************************************************************************)
C16_WindowListBound ==
    LET ts == request_timestamps
    IN  /\ Len(ts) <= MAX_REQUESTS_PER_MINUTE + 1
        /\ ts # <<>> =>
              Cardinality({i \in 1..Len(ts) : ts[Len(ts)] - ts[i] < 60})
                  <= MAX_REQUESTS_PER_MINUTE

C16_Witness ==
    /\ Len(request_timestamps) = MAX_REQUESTS_PER_MINUTE + 1
    /\ request_timestamps[Len(request_timestamps)] - request_timestamps[1] > 60

(***************************************************************************)
(* C17: a request calls get_token_data at most twice; between the first    *)
(* call, which failed, and the second the pipeline calls worker.init()     *)
(* exactly once; and the request is aborted with the credential error in   *)
(* the step of the second failure.                                         *)
(***************************************************************************)
C17_OneReinitOneRetry ==
    /\ [](\A r \in Requests :
             /\ req[r].credCalls <= 2
             /\ req[r].reinits <= 1
             /\ req[r].pc = "reinit" =>
                    (req[r].credCalls = 1 /\ req[r].reinits = 0)
             /\ req[r].pc = "cred2" =>
                    (req[r].credCalls = 1 /\ req[r].reinits = 1)
             /\ req[r].credCalls = 2 => req[r].reinits = 1)
    /\ [][\A r \in Requests :
             (~IsDone(r) /\ req'[r].cause = "cred_twice") =>
                 /\ req[r].pc = "cred2"
                 /\ req[r].credCalls = 1
                 /\ req[r].reinits = 1]_vars

C17_Witness ==
    \E r \in Requests :
        /\ req[r].pc = "gen"
        /\ req[r].credCalls = 2
        /\ req[r].reinits = 1
        /\ req[r].credFails = 1

C19_OneLiveContext ==
    /\ [](\A w \in Workers :
             /\ live[w] <= 1
             /\ context[w] <=> live[w] = 1
             /\ page[w] => context[w])
    /\ [][\A r \in DOMAIN req :
             LET w == req'[r].worker
             IN  /\ (req'[r].op = "init" /\ req'[r].result = "False") =>
                        (~context'[w] /\ live'[w] = 0)
                 /\ req'[r].op = "close" =>
                        /\ req'[r].result = "None"
                        /\ ~context'[w] /\ ~page'[w] /\ live'[w] = 0
                        /\ uses_count'[w] = uses_count[w]]_vars

C19_Witness ==
    \E r \in Requests :
        /\ req[r].op = "init"
        /\ req[r].path = "teardown"
        /\ req[r].result = "True"
        /\ req[r].usesBefore = MaxWorkerUses
        /\ live[req[r].worker] = 1
        /\ context[req[r].worker]

(***************************************************************************)
(* C20: callers are admitted in the order in which they arrived at the     *)
(* lock: while caller a is ahead of caller b (a holds the lock, asleep or  *)
(* not, or waits for it ahead of b, or is there when b arrives), no step   *)
(* admits b, and b stays behind a for as long as a is there.               *)
(***************************************************************************)
ArrivalQueue ==
    (IF lockHolder # NoRequest THEN <<lockHolder>> ELSE <<>>) \o lockWaiters

Pos(q, r) ==
    LET S == {i \in 1..Len(q) : q[i] = r} IN IF S = {} THEN 0 ELSE Min(S)

C20_FifoAdmission ==
    [][\A a, b \in DOMAIN req :
          LET q == ArrivalQueue
              qn == ArrivalQueue'
          IN  (a # b /\ Pos(q, a) # 0 /\
               (Pos(q, b) = 0 \/ Pos(q, a) < Pos(q, b))) =>
                  /\ ~(req'[b].admitted /\ ~req[b].admitted)
                  /\ Pos(q, b) # 0 => Pos(qn, b) # 0
                  /\ (Pos(qn, a) # 0 /\ Pos(qn, b) # 0) =>
                         Pos(qn, a) < Pos(qn, b)]_vars

C20_Witness ==
    /\ lockHolder # NoRequest
    /\ req[lockHolder].pc = "rl_sleep"
    /\ Len(lockWaiters) = 2

====
